---- MODULE Spec2Model ----
(***************************************************************************)
(* A model of the mail-merge tool.  The template service                   *)
(* (src/src/services/template_service.py): the rich-text-to-HTML renderer  *)
(* get_html_content, the substitution replace_variables, and the parameter *)
(* extraction validate_template_params / validate_template.  The parameter *)
(* and recipients services with the panels that call them, the send loop   *)
(* and the preview window of the main window, and the e-mail service.      *)
(*                                                                         *)
(* A Python str is a sequence of one-character strings; a list of str is a *)
(* sequence of such sequences; a dict is a sequence of <<key, value>>      *)
(* pairs in insertion order (replace_variables) or a function on its keys  *)
(* (the tag map).                                                          *)
(***************************************************************************)
EXTENDS Integers, Sequences, FiniteSets, TLC

-----------------------------------------------------------------------------
(* Bounds of the explored inputs.                                          *)

\* longest content rendered with a non-empty tag map
MaxLen == 3
\* longest content rendered with the empty tag map
MaxPlainLen == 4

-----------------------------------------------------------------------------
(* Python's str operations, on sequences of characters.                    *)

Range(f) == {f[x] : x \in DOMAIN f}

RECURSIVE Join(_, _)
\* sep.join(parts)
Join(parts, sep) ==
    IF parts = <<>> THEN <<>>
    ELSE IF Len(parts) = 1 THEN Head(parts)
    ELSE Head(parts) \o sep \o Join(Tail(parts), sep)

StartsWith(s, p) ==
    /\ Len(p) <= Len(s)
    /\ SubSeq(s, 1, Len(p)) = p

RECURSIVE Split(_, _)
\* s.split(c) for a one-character separator c
Split(s, c) ==
    IF \A i \in 1..Len(s) : s[i] # c THEN <<s>>
    ELSE LET i == CHOOSE i \in 1..Len(s) :
                      s[i] = c /\ \A j \in 1..(i - 1) : s[j] # c
         IN  <<SubSeq(s, 1, i - 1)>> \o Split(SubSeq(s, i + 1, Len(s)), c)

\* s.split(c, 1): at most one split, at the first c
SplitOnce(s, c) ==
    IF \A i \in 1..Len(s) : s[i] # c THEN <<s>>
    ELSE LET i == CHOOSE i \in 1..Len(s) :
                      s[i] = c /\ \A j \in 1..(i - 1) : s[j] # c
         IN  <<SubSeq(s, 1, i - 1), SubSeq(s, i + 1, Len(s))>>

Whitespace == {" ", "\n", "\t"}

RECURSIVE Strip(_)
\* s.strip()
Strip(s) ==
    IF s = <<>> THEN s
    ELSE IF s[1] \in Whitespace THEN Strip(Tail(s))
    ELSE IF s[Len(s)] \in Whitespace THEN Strip(SubSeq(s, 1, Len(s) - 1))
    ELSE s

RECURSIVE Replace(_, _, _)
\* s.replace(old, new) for a non-empty old: the non-overlapping occurrences
\* of old, found left to right, each replaced by new
Replace(s, old, new) ==
    IF Len(s) < Len(old) THEN s
    ELSE IF SubSeq(s, 1, Len(old)) = old
         THEN new \o Replace(SubSeq(s, Len(old) + 1, Len(s)), old, new)
         ELSE <<s[1]>> \o Replace(Tail(s), old, new)

Digit == <<"0", "1", "2", "3", "4", "5", "6", "7", "8", "9">>

RECURSIVE Str(_)
\* str(n) of a non-negative int: its decimal digits (a Python dict key)
Str(n) ==
    IF n < 10 THEN <<Digit[n + 1]>>
    ELSE Str(n \div 10) \o <<Digit[(n % 10) + 1]>>

\* html.escape without its first replacement, of &
html_escape_no_amp(s) ==
    LET s2 == Replace(s, <<"<">>, <<"&","l","t",";">>)
        s3 == Replace(s2, <<">">>, <<"&","g","t",";">>)
        s4 == Replace(s3, <<"\"">>, <<"&","q","u","o","t",";">>)
    IN  Replace(s4, <<"'">>, <<"&","#","x","2","7",";">>)

\* html.escape(s): & first, then < > " '
html_escape(s) ==
    LET s1 == Replace(s, <<"&">>, <<"&","a","m","p",";">>)
        s2 == Replace(s1, <<"<">>, <<"&","l","t",";">>)
        s3 == Replace(s2, <<">">>, <<"&","g","t",";">>)
        s4 == Replace(s3, <<"\"">>, <<"&","q","u","o","t",";">>)
    IN  Replace(s4, <<"'">>, <<"&","#","x","2","7",";">>)

-----------------------------------------------------------------------------
(* Format tags and the text of the generated markup.                       *)

Bold       == <<"b","o","l","d">>
Italic     == <<"i","t","a","l","i","c">>
Underline  == <<"u","n","d","e","r","l","i","n","e">>
Sel        == <<"s","e","l">>
FamilyPrefix == <<"f","o","n","t","-","f","a","m","i","l","y",":">>
SizePrefix   == <<"f","o","n","t","-","s","i","z","e",":">>
FamilyArial == FamilyPrefix \o <<"A","r","i","a","l">>
Size14      == SizePrefix \o <<"1","4">>
\* the tag TemplatePanel.apply_font adds to a selection: font_<family>_<size>
FontArial14 == <<"f","o","n","t","_","A","r","i","a","l","_","1","4">>

\* column identifiers and the values of the status column: "waiting" stands
\* for the source's literal for 'to be sent', "sending" for 'being sent',
\* "sent" for 'sent', "failed" for 'sending failed'
EmailKey  == <<"e","m","a","i","l">>
NameKey   == <<"n","a","m","e">>
StatusKey == <<"s","t","a","t","u","s">>
StatusWaiting == <<"w","a","i","t","i","n","g">>
StatusSending == <<"s","e","n","d","i","n","g">>
StatusSent    == <<"s","e","n","t">>
StatusFailed  == <<"f","a","i","l","e","d">>

POpen   == <<"<","p",">">>
PClose  == <<"<","/","p",">">>
PBlank  == <<"<","p",">","&","n","b","s","p",";","<","/","p",">">>
Nbsp    == <<"&","n","b","s","p",";">>
SpanOpen  == <<"<","s","p","a","n"," ","s","t","y","l","e","=","\"">>
SpanMid   == <<"\"",">">>
SpanClose == <<"<","/","s","p","a","n",">">>
StyleBold      == <<"f","o","n","t","-","w","e","i","g","h","t",":"," ","b","o","l","d">>
StyleItalic    == <<"f","o","n","t","-","s","t","y","l","e",":"," ","i","t","a","l","i","c">>
StyleUnderline == <<"t","e","x","t","-","d","e","c","o","r","a","t","i","o","n",":"," ","u","n","d","e","r","l","i","n","e">>
StyleFamily(family) == <<"f","o","n","t","-","f","a","m","i","l","y",":"," ","'">> \o family \o <<"'">>
StyleSize(size)     == <<"f","o","n","t","-","s","i","z","e",":"," ">> \o size \o <<"p","t">>

-----------------------------------------------------------------------------
(* State.                                                                  *)

VARIABLES
    \* TemplateService fields
    subject, content, is_html, tags, font_family, font_size,
    \* the order in which this process iterates a set of str (PYTHONHASHSEED)
    hash_order,
    \* get_html_content: position in the method and its locals
    pc, paragraphs, pidx, current_pos, last_empty, html_lines, html,
    \* a call of one of the static methods: the dict passed as variables, the
    \* set passed as available_params, the method that returned and its value
    variables, available_params, call, ret,
    \* the caller's copies of what earlier calls returned: for get_html_content
    \* the tag map rendered and the string returned, for replace_variables the
    \* string returned
    kept_html, kept_ret,
    \* ParameterService._custom_params; RecipientsService.recipients_data; the
    \* RecipientsPanel's table rows, current_columns and template_params; whether
    \* the ParameterPanel's add and remove buttons are enabled
    custom_params, recipients_data, tree_rows, current_columns, template_params,
    editing_enabled,
    \* send_emails: position in the method, index of the recipient the loop is
    \* at, the send_email calls made, what validate() returned, how the last
    \* invocation ended
    send_pc, send_i, attempts, validated, outcome,
    \* the PreviewWindow: whether one is open, its preview_data, current_page
    \* and total_pages, the subject and the body it shows
    preview_open, preview_data, current_page, total_pages, shown_subject,
    shown_body,
    \* an EmailService: what _server holds, and the send_message calls made
    server, smtp_log

serviceVars == <<subject, content, is_html, tags, font_family, font_size>>
renderVars  == <<pc, paragraphs, pidx, current_pos, last_empty, html_lines, html>>
staticVars  == <<variables, available_params, call, ret>>
callerVars  == <<kept_html, kept_ret>>
recipientVars == <<custom_params, recipients_data, tree_rows, current_columns,
                   template_params, editing_enabled>>
sendVars    == <<send_pc, send_i, attempts, validated, outcome>>
guiVars     == <<recipientVars, sendVars>>
previewVars == <<preview_open, preview_data, current_page, total_pages,
                 shown_subject, shown_body>>
smtpVars    == <<server, smtp_log>>
otherVars   == <<callerVars, guiVars, previewVars, smtpVars>>
vars == <<serviceVars, hash_order, renderVars, staticVars, otherVars>>

-----------------------------------------------------------------------------
(* Inputs.                                                                 *)

Strings(chars, n) == UNION {[1..k -> chars] : k \in 0..n}

\* characters of a content rendered without tags: every character that
\* html.escape rewrites, the space, the newline and a plain letter
PlainChars == {"p", " ", "\n", "<", ">", "&", "\"", "'"}
\* characters of a content rendered with tags
TaggedChars == {"a", " ", "\n"}

\* the tag lists a position of the tag map may hold (a Python list each)
TagLists == {
    <<Bold>>,
    <<Sel, Bold>>,
    <<Sel>>,
    <<FamilyArial, Size14>>,
    <<Size14, Underline, FamilyArial, Italic, Bold>> }

EmptyMap == <<>>

\* the sparse tag maps over the offsets 0..n-1, keyed by str(offset)
TagMaps(n) ==
    UNION {[D -> TagLists] : D \in SUBSET {Str(i) : i \in 0..(n - 1)}}

\* iteration orders of a set of str, one per hash seed
HashOrders == {
    <<Bold, Italic, Underline, Sel, FamilyArial, Size14, FontArial14>>,
    <<FontArial14, Size14, Sel, Underline, FamilyArial, Italic, Bold>> }

-----------------------------------------------------------------------------
(* get_html_content                                                        *)

\* self._tags.get(key, [])
TagsGet(key) == IF key \in DOMAIN tags THEN tags[key] ELSE <<>>

\* CleanTags without the filter: 'sel' stays in the tag set
CleanTags_keep_sel(offset) == Range(TagsGet(Str(offset)))

\* {tag for tag in self._tags.get(str(offset), []) if tag != 'sel'}
CleanTags(offset) == {tag \in Range(TagsGet(Str(offset))) : tag # Sel}

\* for tag in current_tags: the elements in this process's set order
Iterate(S) == SelectSeq(hash_order, LAMBDA tag : tag \in S)

RECURSIVE RunEnd_lists(_, _, _, _)
\* RunEnd comparing the stored tag lists instead of the 'sel'-free tag sets
RunEnd_lists(paragraph, cp, pos, end_pos) ==
    IF end_pos < Len(paragraph)
       /\ TagsGet(Str(cp + end_pos)) = TagsGet(Str(cp + pos))
    THEN RunEnd_lists(paragraph, cp, pos, end_pos + 1)
    ELSE end_pos

RECURSIVE RunEnd(_, _, _, _)
\* the inner while loop: extend end_pos while the next position of the
\* paragraph has the tag set of position pos
RunEnd(paragraph, cp, pos, end_pos) ==
    IF end_pos < Len(paragraph) /\ CleanTags(cp + end_pos) = CleanTags(cp + pos)
    THEN RunEnd(paragraph, cp, pos, end_pos + 1)
    ELSE end_pos

RECURSIVE FontStyles(_)
\* the loop over current_tags: a declaration per font-family:/font-size: tag
FontStyles(order) ==
    IF order = <<>> THEN <<>>
    ELSE LET tag   == Head(order)
             parts == SplitOnce(tag, ":")
             here  == IF StartsWith(tag, FamilyPrefix)
                      THEN IF Len(parts) = 2
                           THEN <<StyleFamily(Strip(parts[2]))>> ELSE <<>>
                      ELSE IF StartsWith(tag, SizePrefix)
                      THEN IF Len(parts) = 2
                           THEN <<StyleSize(Strip(parts[2]))>> ELSE <<>>
                      ELSE <<>>
         IN  here \o FontStyles(Tail(order))

\* the list styles built for a non-empty tag set
Styles(current_tags) ==
    (IF Bold \in current_tags THEN <<StyleBold>> ELSE <<>>)
    \o (IF Italic \in current_tags THEN <<StyleItalic>> ELSE <<>>)
    \o (IF Underline \in current_tags THEN <<StyleUnderline>> ELSE <<>>)
    \o FontStyles(Iterate(current_tags))

\* EscapedText with the two steps swapped: the entity is escaped too
EscapedText_nbsp_first(segment) == html_escape(Replace(segment, <<" ">>, Nbsp))

\* html.escape(segment).replace(' ', '&nbsp;')
EscapedText(segment) == Replace(html_escape(segment), <<" ">>, Nbsp)

\* the line appended for one run
RunLine(segment, current_tags) ==
    IF current_tags # {}
    THEN SpanOpen \o Join(Styles(current_tags), <<";", " ">>) \o SpanMid
         \o EscapedText(segment) \o SpanClose
    ELSE EscapedText(segment)

RECURSIVE Runs(_, _, _)
\* the outer while loop over a non-empty paragraph, from position pos
Runs(paragraph, cp, pos) ==
    IF pos >= Len(paragraph) THEN <<>>
    ELSE LET end_pos == RunEnd(paragraph, cp, pos, pos + 1)
             segment == SubSeq(paragraph, pos + 1, end_pos)
         IN  <<RunLine(segment, CleanTags(cp + pos))>>
             \o Runs(paragraph, cp, end_pos)

\* blank_line without the last_empty test: every blank line emits
blank_line_no_collapse(lines, cp, le) ==
    [lines |-> Append(lines, PBlank), cp |-> cp + 1, le |-> TRUE]

\* blank_line whose skipping branch does not advance current_pos
blank_line_no_advance(lines, cp, le) ==
    IF le
    THEN [lines |-> lines, cp |-> cp, le |-> le]
    ELSE [lines |-> Append(lines, PBlank), cp |-> cp + 1, le |-> TRUE]

\* the branch of the loop body for an empty paragraph
blank_line(lines, cp, le) ==
    IF le
    THEN [lines |-> lines, cp |-> cp + 1, le |-> le]
    ELSE [lines |-> Append(lines, PBlank), cp |-> cp + 1, le |-> TRUE]

\* the rest of the loop body, for a non-empty paragraph
text_paragraph(paragraph, lines, cp) ==
    [lines |-> lines \o <<POpen>> \o Runs(paragraph, cp, 0) \o <<PClose>>,
     cp    |-> cp + Len(paragraph) + 1,
     le    |-> FALSE]

\* get_html_content_begin appending to the list the last call left behind
get_html_content_begin_stale ==
    /\ pc = "idle"
    /\ paragraphs' = Split(content, "\n")
    /\ current_pos' = 0
    /\ last_empty' = FALSE
    /\ pidx' = 1
    /\ pc' = "loop"
    /\ UNCHANGED <<serviceVars, hash_order, html_lines, html, staticVars, otherVars>>

\* html_lines = []; paragraphs = self._content.split('\n'); current_pos = 0;
\* last_empty = False
get_html_content_begin ==
    /\ pc = "idle"
    /\ paragraphs' = Split(content, "\n")
    /\ current_pos' = 0
    /\ last_empty' = FALSE
    /\ html_lines' = <<>>
    /\ pidx' = 1
    /\ pc' = "loop"
    /\ UNCHANGED <<serviceVars, hash_order, html, staticVars, otherVars>>

\* one iteration of `for paragraph in paragraphs`
get_html_content_paragraph ==
    /\ pc = "loop"
    /\ pidx <= Len(paragraphs)
    /\ LET paragraph == paragraphs[pidx]
           r == IF paragraph = <<>>
                THEN blank_line(html_lines, current_pos, last_empty)
                ELSE text_paragraph(paragraph, html_lines, current_pos)
       IN  /\ html_lines' = r.lines
           /\ current_pos' = r.cp
           /\ last_empty' = r.le
    /\ pidx' = pidx + 1
    /\ UNCHANGED <<serviceVars, hash_order, pc, paragraphs, html, staticVars,
                   otherVars>>

\* return '\n'.join(html_lines)
get_html_content_return ==
    /\ pc = "loop"
    /\ pidx > Len(paragraphs)
    /\ html' = Join(html_lines, <<"\n">>)
    /\ pc' = "done"
    /\ UNCHANGED <<serviceVars, hash_order, paragraphs, pidx, current_pos,
                   last_empty, html_lines, staticVars, otherVars>>

\* no get_html_content call under way
RenderIdle ==
    /\ pc = "idle"
    /\ paragraphs = <<>>
    /\ pidx = 1
    /\ current_pos = 0
    /\ last_empty = FALSE
    /\ html_lines = <<>>
    /\ html = <<>>

\* no static method called
StaticIdle ==
    /\ variables = <<>>
    /\ available_params = {}
    /\ call = "none"
    /\ ret = <<>>

\* the caller holds no earlier result
CallerIdle ==
    /\ kept_html = <<>>
    /\ kept_ret = <<>>

\* RecipientsPanel.__init__, RecipientsService.__init__ and the class
\* attribute ParameterService._custom_params: no parameter, no recipient
RecipientsIdle ==
    /\ custom_params = <<>>
    /\ recipients_data = <<>>
    /\ tree_rows = <<>>
    /\ current_columns = <<EmailKey, NameKey, StatusKey>>
    /\ template_params = {}
    /\ editing_enabled = TRUE

\* send_emails has not been invoked
SendIdle ==
    /\ send_pc = "idle"
    /\ send_i = 1
    /\ attempts = <<>>
    /\ validated = FALSE
    /\ outcome = "none"

\* no PreviewWindow is open
PreviewIdle ==
    /\ preview_open = FALSE
    /\ preview_data = <<>>
    /\ current_page = 0
    /\ total_pages = 0
    /\ shown_subject = <<>>
    /\ shown_body = <<>>

\* EmailService.__init__: no connection, nothing sent
SmtpIdle ==
    /\ server = "None"
    /\ smtp_log = <<>>

\* nothing outside the TemplateService and its caller has happened
OtherIdle == CallerIdle /\ RecipientsIdle /\ SendIdle /\ PreviewIdle /\ SmtpIdle

\* a TemplateService after update_template(content=..., tags=...), as the
\* tests' create_service builds it, about to render
Init ==
    /\ subject = <<>>
    /\ is_html = TRUE
    /\ font_family = "Times New Roman"
    /\ font_size = "12"
    /\ \/ /\ content \in Strings(PlainChars, MaxPlainLen)
          /\ tags = EmptyMap
       \/ /\ content \in Strings(TaggedChars, MaxLen)
          /\ tags \in TagMaps(Len(content)) \ {EmptyMap}
    /\ hash_order \in HashOrders
    /\ RenderIdle
    /\ StaticIdle
    /\ OtherIdle

Next ==
    \/ get_html_content_begin
    \/ get_html_content_paragraph
    \/ get_html_content_return

Spec == Init /\ [][Next]_vars

-----------------------------------------------------------------------------
(* replace_variables, validate_template_params, get_template_params,       *)
(* validate_template: static methods, called on the service's subject and  *)
(* content as the sender window does.                                      *)

\* longest template text substituted or scanned for parameters
MaxTplLen == 6

\* characters of a template: the braces and two letters
TplChars == {"{", "}", "a", "b"}
KeyA == <<"a">>
KeyB == <<"b">>
\* a column header that holds braces
KeyBraces == <<"a", "}", "{", "b">>
ValueX == <<"X">>
\* a value that reads as the placeholder of key b
ValueRefB == <<"{", "b", "}">>
Values == {<<>>, ValueX, ValueRefB}

\* the dicts passed as variables, as <<key, value>> pairs in insertion order:
\* every dict over the keys a and b, and two with a key that holds braces
VarMaps ==
    {<<>>}
    \cup {<<<<k, v>>>> : k \in {KeyA, KeyB}, v \in Values}
    \cup {<<<<k[1], v[1]>>, <<k[2], v[2]>>>> :
             k \in {<<KeyA, KeyB>>, <<KeyB, KeyA>>}, v \in Values \X Values}
    \cup {<<<<KeyBraces, ValueX>>>>, <<<<KeyA, ValueX>>, <<KeyBraces, ValueX>>>>}

\* the subjects and the available parameter sets validate_template is given
Subjects == {<<>>, <<"{", "a", "}">>, <<"{", "b", "}", "{", "a", "b", "}">>}
AvailableSets == SUBSET {KeyA, KeyB}

\* '{' + key + '}'
Placeholder(key) == <<"{">> \o key \o <<"}">>

\* replace_variables returning from inside its loop, after the first key
replace_variables_first_key(template, items) ==
    IF items = <<>> THEN template
    ELSE Replace(template, Placeholder(items[1][1]), items[1][2])

RECURSIVE replace_variables_open_only(_, _)
\* replace_variables replacing '{' + key, without the closing brace
replace_variables_open_only(template, items) ==
    IF items = <<>> THEN template
    ELSE replace_variables_open_only(
             Replace(template, <<"{">> \o items[1][1], items[1][2]), Tail(items))

RECURSIVE replace_variables(_, _)
\* for key, value in variables.items(): result = result.replace(...)
replace_variables(template, items) ==
    IF items = <<>> THEN template
    ELSE replace_variables(
             Replace(template, Placeholder(items[1][1]), items[1][2]), Tail(items))

RECURSIVE FindAll(_, _)
\* re.findall(r'\{([^}]+)\}', text), scanning from index i: at a '{' the
\* greedy [^}]+ runs to the first '}' after it, and the match fails when that
\* '}' is missing or follows the '{' directly; the scan resumes after a match
FindAll(text, i) ==
    IF i > Len(text) THEN <<>>
    ELSE IF text[i] # "{" THEN FindAll(text, i + 1)
    ELSE LET closes == {j \in (i + 1)..Len(text) : text[j] = "}"}
         IN  IF closes = {} THEN FindAll(text, i + 1)
             ELSE LET j == CHOOSE j \in closes : \A x \in closes : j <= x
                  IN  IF j = i + 1 THEN FindAll(text, i + 1)
                      ELSE <<SubSeq(text, i + 1, j - 1)>> \o FindAll(text, j + 1)

RECURSIVE FindAllNoOpen(_, _)
\* the scan for the pattern \{([^{}]+)\}, whose identifier excludes '{' too
FindAllNoOpen(text, i) ==
    IF i > Len(text) THEN <<>>
    ELSE IF text[i] # "{" THEN FindAllNoOpen(text, i + 1)
    ELSE LET stops == {j \in (i + 1)..Len(text) : text[j] \in {"{", "}"}}
         IN  IF stops = {} THEN FindAllNoOpen(text, i + 1)
             ELSE LET j == CHOOSE j \in stops : \A x \in stops : j <= x
                  IN  IF j = i + 1 \/ text[j] = "{" THEN FindAllNoOpen(text, i + 1)
                      ELSE <<SubSeq(text, i + 1, j - 1)>>
                           \o FindAllNoOpen(text, j + 1)

validate_template_params_no_open(text) == Range(FindAllNoOpen(text, 1))

\* set(re.findall(pattern, text))
validate_template_params(text) == Range(FindAll(text, 1))

\* get_template_params that forgets the subject
get_template_params_content_only(subj, cont) == validate_template_params(cont)

get_template_params(subj, cont) ==
    validate_template_params(subj) \cup validate_template_params(cont)

\* (len(undefined_params) == 0, undefined_params)
validate_template(subj, cont, available) ==
    LET undefined_params == get_template_params(subj, cont) \ available
    IN  <<Cardinality(undefined_params) = 0, undefined_params>>

call_replace_variables ==
    /\ call = "none"
    /\ ret' = replace_variables(content, variables)
    /\ call' = "replace_variables"
    /\ UNCHANGED <<serviceVars, hash_order, renderVars, variables, available_params,
                   otherVars>>

call_validate_template_params ==
    /\ call = "none"
    /\ ret' = validate_template_params(content)
    /\ call' = "validate_template_params"
    /\ UNCHANGED <<serviceVars, hash_order, renderVars, variables, available_params,
                   otherVars>>

call_validate_template ==
    /\ call = "none"
    /\ ret' = validate_template(subject, content, available_params)
    /\ call' = "validate_template"
    /\ UNCHANGED <<serviceVars, hash_order, renderVars, variables, available_params,
                   otherVars>>

\* the fields of a TemplateService that is not the subject of the call
ServiceDefaults ==
    /\ is_html = TRUE
    /\ tags = EmptyMap
    /\ font_family = "Times New Roman"
    /\ font_size = "12"
    /\ hash_order = <<Bold, Italic, Underline, Sel, FamilyArial, Size14, FontArial14>>

\* a template text and a recipient row about to be substituted
InitSubst ==
    /\ ServiceDefaults
    /\ subject = <<>>
    /\ content \in Strings(TplChars, MaxTplLen)
    /\ variables \in VarMaps
    /\ available_params = {}
    /\ call = "none"
    /\ ret = <<>>
    /\ RenderIdle
    /\ OtherIdle

NextSubst == call_replace_variables

SpecSubst == InitSubst /\ [][NextSubst]_vars

\* a subject, a content and a set of available parameters about to be validated
InitParams ==
    /\ ServiceDefaults
    /\ subject \in Subjects
    /\ content \in Strings(TplChars, MaxTplLen)
    /\ variables = <<>>
    /\ available_params \in AvailableSets
    /\ call = "none"
    /\ ret = <<>>
    /\ RenderIdle
    /\ OtherIdle

NextParams ==
    \/ call_validate_template_params
    \/ call_validate_template

SpecParams == InitParams /\ [][NextParams]_vars

-----------------------------------------------------------------------------
(* A caller that uses one TemplateService more than once: it renders, keeps *)
(* the string returned, may replace the tag map through update_template and *)
(* renders again; it substitutes the content and substitutes it again.      *)

\* longest content rendered more than once
MaxSessionLen == 2
\* results the caller keeps of each method
MaxKept == 1

\* the tag lists of a template the user has selected text in
SessionTagLists == {<<Bold>>, <<Sel, Bold>>, <<Sel>>}
\* a key no str(offset) equals
MalformedKey == <<"x">>

OffsetKeys(n) == {Str(i) : i \in 0..(n - 1)}
SessionTagMaps(n) == UNION {[D -> SessionTagLists] : D \in SUBSET OffsetKeys(n)}
\* tag maps that also hold the malformed key
MalformedTagMaps(n) ==
    {m @@ (MalformedKey :> <<Bold>>) :
        m \in UNION {[D -> {<<Bold>>}] : D \in SUBSET OffsetKeys(n)}}

SessionTemplates == {<<"{", "a", "}">>, <<"{", "a", "}", " ", "{", "b", "}">>}
SessionVarMaps == {
    <<<<KeyA, ValueX>>>>,
    <<<<KeyA, ValueRefB>>, <<KeyB, ValueX>>>> }

\* the tag map with 'sel' taken out of every list
StripSel(tagmap) ==
    [key \in DOMAIN tagmap |-> SelectSeq(tagmap[key], LAMBDA tag : tag # Sel)]

\* update_template: every field is assigned
update_template(new_subject, new_content, new_is_html, new_tags, new_font_family, new_font_size) ==
    /\ subject' = new_subject
    /\ content' = new_content
    /\ is_html' = new_is_html
    /\ tags' = new_tags
    /\ font_family' = new_font_family
    /\ font_size' = new_font_size

\* the caller stores the string get_html_content returned; the call's locals
\* are dead from here on
keep_html ==
    /\ pc = "done"
    /\ Len(kept_html) < MaxKept
    /\ kept_html' = Append(kept_html, [tags |-> tags, html |-> html])
    /\ pc' = "idle"
    /\ UNCHANGED <<serviceVars, hash_order, paragraphs, pidx, current_pos,
                   last_empty, html_lines, html, staticVars, kept_ret, guiVars,
                   previewVars, smtpVars>>

\* the template is stored again with the selection marker taken out
update_template_without_sel ==
    /\ pc = "idle"
    /\ update_template(subject, content, is_html, StripSel(tags),
                       font_family, font_size)
    /\ UNCHANGED <<hash_order, renderVars, staticVars, otherVars>>

\* the caller stores the string replace_variables returned and calls it again
\* with the same template and dict
call_replace_variables_again ==
    /\ call = "replace_variables"
    /\ Len(kept_ret) < MaxKept
    /\ kept_ret' = Append(kept_ret, ret)
    /\ ret' = replace_variables(content, variables)
    /\ UNCHANGED <<serviceVars, hash_order, renderVars, variables, available_params,
                   call, kept_html, guiVars, previewVars, smtpVars>>

InitSession ==
    /\ subject = <<>>
    /\ is_html = TRUE
    /\ font_family = "Times New Roman"
    /\ font_size = "12"
    /\ hash_order = <<Bold, Italic, Underline, Sel, FamilyArial, Size14, FontArial14>>
    /\ \/ /\ content \in Strings(TaggedChars, MaxSessionLen)
          /\ tags \in SessionTagMaps(Len(content)) \cup MalformedTagMaps(Len(content))
          /\ variables = <<>>
       \/ /\ content \in SessionTemplates
          /\ tags = EmptyMap
          /\ variables \in SessionVarMaps
    /\ available_params = {}
    /\ call = "none"
    /\ ret = <<>>
    /\ RenderIdle
    /\ OtherIdle

NextSession ==
    \/ get_html_content_begin
    \/ get_html_content_paragraph
    \/ get_html_content_return
    \/ keep_html
    \/ update_template_without_sel
    \/ call_replace_variables
    \/ call_replace_variables_again

SpecSession == InitSession /\ [][NextSession]_vars

-----------------------------------------------------------------------------
(* The recipient list: CSVHandler, ParameterService, RecipientsService and  *)
(* the handlers of RecipientsPanel and ParameterPanel.  A dict is the       *)
(* sequence of its <<key, value>> items in insertion order.                 *)

\* most data rows of a CSV file the panel imports
MaxRows == 1
\* most data rows of the CSV file behind a list that is sent
MaxSendRows == 2

DictKeys(d) == {d[i][1] : i \in 1..Len(d)}
\* d.get(key, default)
DictGet(d, key, default) ==
    IF key \in DictKeys(d)
    THEN d[CHOOSE i \in 1..Len(d) : d[i][1] = key][2]
    ELSE default
\* d[key] = value
DictSet(d, key, value) ==
    IF key \in DictKeys(d)
    THEN [i \in 1..Len(d) |-> IF d[i][1] = key THEN <<key, value>> ELSE d[i]]
    ELSE Append(d, <<key, value>>)

UpperCase == <<"A","B","C","D","E","F","G","H","I","J","K","L","M",
               "N","O","P","Q","R","S","T","U","V","W","X","Y","Z">>
LowerCase == <<"a","b","c","d","e","f","g","h","i","j","k","l","m",
               "n","o","p","q","r","s","t","u","v","w","x","y","z">>
\* str.lower()
Lower(s) ==
    [i \in 1..Len(s) |->
        IF \E x \in 1..Len(UpperCase) : UpperCase[x] = s[i]
        THEN LowerCase[CHOOSE x \in 1..Len(UpperCase) : UpperCase[x] = s[i]]
        ELSE s[i]]

\* cell values of the CSV files
EmailA == <<"a", "@">>
EmailB == <<"b", "@">>
NameN  == <<"n">>
Emails == {EmailA, EmailB}
Names  == {NameN}
HeaderEmailCapital == <<"E","m","a","i","l">>

\* the header rows and the data rows (lists of cells; a blank line reads as
\* the empty list) of the files the user may pick
CsvHeaderLists == {
    <<EmailKey, NameKey>>,
    <<HeaderEmailCapital, NameKey>>,
    <<NameKey>>,
    <<EmailKey, NameKey, KeyA>> }
CsvRows == {
    <<EmailA, NameN, ValueX>>,
    <<EmailB, NameN>>,
    <<>> }
\* the files of at most n data rows, and a file that cannot be read
CsvFilesOf(n) ==
    {[readable |-> TRUE, headers |-> h, rows |-> r] :
        h \in CsvHeaderLists, r \in Strings(CsvRows, n)}
    \cup {[readable |-> FALSE, headers |-> <<>>, rows |-> <<>>]}
CsvFiles == CsvFilesOf(MaxRows)

RECURSIVE ZipRow(_, _, _)
\* for header, value in zip(headers, row): row_dict[header] = value.strip()
ZipRow(headers, row, row_dict) ==
    IF headers = <<>> \/ row = <<>> THEN row_dict
    ELSE ZipRow(Tail(headers), Tail(row),
                DictSet(row_dict, Head(headers), Strip(Head(row))))

\* CSVHandler.read_recipients on a file that can be read
read_recipients(file) ==
    LET headers == [i \in 1..Len(file.headers) |-> Strip(file.headers[i])]
    IN  [i \in 1..Len(file.rows) |-> ZipRow(headers, file.rows[i], <<>>)]

\* ParameterService.validate_required_params: (is_valid, missing)
validate_required_params(headers) ==
    LET headers_lower == {Lower(h) : h \in headers}
        missing == {NameKey, EmailKey} \ headers_lower
    IN  <<missing = {}, missing>>

\* ParameterService.merge_params
merge_params(params) == {NameKey, EmailKey} \cup Range(params)

\* ParameterService.validate_template_params: (is_valid, undefined_params)
ParameterService_validate_template_params(params, available) ==
    LET undefined_params == {Lower(q) : q \in params} \ {Lower(q) : q \in available}
    IN  <<undefined_params = {}, undefined_params>>

\* ParameterService.get_display_columns
get_display_columns(params) == <<EmailKey, NameKey>> \o params

\* ParameterService.get_custom_param_identifiers
get_custom_param_identifiers == [i \in 1..Len(custom_params) |-> custom_params[i][2]]

\* RecipientsService_import_csv assigning recipients_data before the required
\* columns are validated
RecipientsService_import_csv_store_first(file, held) ==
    LET failed == [success |-> FALSE, data |-> <<>>, stored |-> held]
    IN  IF ~ file.readable THEN failed
        ELSE LET data == read_recipients(file)
             IN  IF data = <<>> THEN failed
                 ELSE IF ~ validate_required_params(DictKeys(data[1]))[1]
                 THEN [success |-> FALSE, data |-> <<>>, stored |-> data]
                 ELSE LET marked == [i \in 1..Len(data) |->
                                        DictSet(data[i], StatusKey, StatusWaiting)]
                      IN  [success |-> TRUE, data |-> marked, stored |-> marked]

\* RecipientsService.import_csv on a service that holds the list held:
\* whether it succeeded, the data it returns and the list the service holds
\* afterwards
RecipientsService_import_csv(file, held) ==
    LET failed == [success |-> FALSE, data |-> <<>>, stored |-> held]
    IN  IF ~ file.readable THEN failed
        ELSE LET data == read_recipients(file)
             IN  IF data = <<>> THEN failed
                 ELSE IF ~ validate_required_params(DictKeys(data[1]))[1] THEN failed
                 ELSE LET marked == [i \in 1..Len(data) |->
                                        DictSet(data[i], StatusKey, StatusWaiting)]
                      IN  [success |-> TRUE, data |-> marked, stored |-> marked]

\* RecipientsService.validate_template_params on the list it holds
RecipientsService_validate_template_params(data, params) ==
    IF data = <<>> THEN <<TRUE, {}>>
    ELSE ParameterService_validate_template_params(params, DictKeys(data[1]))

\* RecipientsPanel.refresh_treeview: the rows inserted for data
refresh_treeview(data, columns) ==
    [i \in 1..Len(data) |->
        [c \in 1..Len(columns) |-> DictGet(data[i], columns[c], <<>>)]]

\* EmailSenderWindow.on_recipients_imported
on_recipients_imported(success) == editing_enabled' = ~ success

\* RecipientsPanel.import_csv, the user having picked a file.  (This and the
\* other handlers of the two panels run while no send_emails is under way.)
import_csv ==
    /\ send_pc = "idle"
    /\ \E file \in CsvFiles :
          LET r == RecipientsService_import_csv(file, recipients_data)
          IN  /\ recipients_data' = r.stored
              /\ IF ~ r.success
                 THEN /\ on_recipients_imported(FALSE)
                      /\ UNCHANGED <<tree_rows, current_columns>>
                 ELSE IF /\ template_params # {}
                         /\ ~ RecipientsService_validate_template_params(
                                  r.stored, template_params)[1]
                 THEN /\ on_recipients_imported(FALSE)
                      /\ UNCHANGED <<tree_rows, current_columns>>
                 ELSE /\ current_columns' =
                            get_display_columns(get_custom_param_identifiers)
                            \o <<StatusKey>>
                      /\ tree_rows' = refresh_treeview(r.data, current_columns')
                      /\ on_recipients_imported(TRUE)
    /\ UNCHANGED <<serviceVars, hash_order, renderVars, staticVars,
                   callerVars, previewVars, smtpVars,
                   custom_params, template_params, sendVars>>

\* RecipientsPanel.clear_recipients, the user having confirmed
clear_recipients ==
    /\ send_pc = "idle"
    /\ recipients_data # <<>>
    /\ recipients_data' = <<>>
    /\ on_recipients_imported(FALSE)
    /\ tree_rows' = refresh_treeview(<<>>, current_columns)
    /\ UNCHANGED <<serviceVars, hash_order, renderVars, staticVars,
                   callerVars, previewVars, smtpVars,
                   custom_params, current_columns, template_params, sendVars>>

RECURSIVE EditedRow(_, _, _, _)
\* save_edit's new_data: the row with the entry of every column but status
\* stored; the entries are pre-filled with the row's values, and the user
\* types the e-mail address and the name
EditedRow(new_data, columns, email, name) ==
    IF columns = <<>> THEN new_data
    ELSE LET col == Head(columns)
             value == IF col = EmailKey THEN email
                      ELSE IF col = NameKey THEN name
                      ELSE DictGet(new_data, col, <<>>)
         IN  EditedRow(IF col = StatusKey THEN new_data
                       ELSE DictSet(new_data, col, Strip(value)),
                       Tail(columns), email, name)

\* on_double_click on a table row and save_edit with entries that pass
\* validate_input
save_edit ==
    /\ send_pc = "idle"
    /\ \E item \in 1..Len(tree_rows), email \in Emails, name \in Names :
          \* get_recipient(row_index) raises IndexError past the list's end
          /\ item <= Len(recipients_data)
          /\ LET recipient == recipients_data[item]
                 new_data == EditedRow(recipient, current_columns, email, name)
                 new_values == [c \in 1..Len(current_columns) |->
                                   DictGet(new_data, current_columns[c], <<>>)]
             IN  /\ recipients_data' = [recipients_data EXCEPT ![item] = new_data]
                 /\ tree_rows' = [tree_rows EXCEPT ![item] = new_values]
    /\ UNCHANGED <<serviceVars, hash_order, renderVars, staticVars,
                   callerVars, previewVars, smtpVars,
                   custom_params, current_columns, template_params,
                   editing_enabled, sendVars>>

\* display name and identifiers typed into the add-parameter dialog
DisplayNameD == <<"D">>
ParamIdentifiers == {KeyA, <<>>}

\* characters str.isalnum accepts
AlnumChars == Range(UpperCase) \cup Range(LowerCase) \cup Range(Digit)

\* validate_param_identifier comparing the identifiers as they are spelled
validate_param_identifier_case_sensitive(identifier, existing_ids) ==
    /\ identifier # <<>>
    /\ identifier \notin existing_ids
    /\ LET bare == Replace(identifier, <<"_">>, <<>>)
       IN  bare # <<>> /\ \A i \in 1..Len(bare) : bare[i] \in AlnumChars

\* ParameterService.validate_param_identifier: is_valid
validate_param_identifier(identifier, existing_ids) ==
    /\ identifier # <<>>
    /\ Lower(identifier) \notin {Lower(id) : id \in existing_ids}
    /\ LET bare == Replace(identifier, <<"_">>, <<>>)
       IN  bare # <<>> /\ \A i \in 1..Len(bare) : bare[i] \in AlnumChars

\* RecipientsPanel.sync_custom_params, reached through on_params_change
sync_custom_params(params) ==
    /\ template_params' = merge_params(params)
    /\ current_columns' = get_display_columns(params) \o <<StatusKey>>
    /\ tree_rows' = refresh_treeview(recipients_data, current_columns')

\* ParameterPanel: the add dialog's save, with a display name typed
save_param ==
    /\ send_pc = "idle"
    /\ editing_enabled
    /\ \E identifier \in ParamIdentifiers :
          IF validate_param_identifier(identifier,
                                       Range(get_custom_param_identifiers))
          THEN /\ custom_params' = Append(custom_params, <<DisplayNameD, identifier>>)
               /\ sync_custom_params(
                      [i \in 1..Len(custom_params') |-> custom_params'[i][2]])
          ELSE UNCHANGED <<custom_params, template_params, current_columns, tree_rows>>
    /\ UNCHANGED <<serviceVars, hash_order, renderVars, staticVars,
                   callerVars, previewVars, smtpVars,
                   recipients_data, editing_enabled, sendVars>>

\* ParameterPanel: a parameter row's remove button
remove_param ==
    /\ send_pc = "idle"
    /\ editing_enabled
    /\ \E i \in 1..Len(custom_params) :
          /\ \A x \in 1..(i - 1) :
                Lower(custom_params[x][2]) # Lower(custom_params[i][2])
          /\ custom_params' = SubSeq(custom_params, 1, i - 1)
                              \o SubSeq(custom_params, i + 1, Len(custom_params))
          /\ sync_custom_params(
                 [x \in 1..Len(custom_params') |-> custom_params'[x][2]])
    /\ UNCHANGED <<serviceVars, hash_order, renderVars, staticVars,
                   callerVars, previewVars, smtpVars,
                   recipients_data, editing_enabled, sendVars>>

-----------------------------------------------------------------------------
(* EmailSenderWindow.validate and send_emails.  The SMTP server is the      *)
(* environment: whether a connection opens and whether a message is         *)
(* accepted is chosen freely at each call.  The window.update() calls of    *)
(* the loop are taken to dispatch no user event.                            *)

RECURSIVE RenderLines(_, _, _, _, _)
\* the loop of get_html_content over the paragraphs from the i-th on
RenderLines(paras, i, lines, cp, le) ==
    IF i > Len(paras) THEN lines
    ELSE LET r == IF paras[i] = <<>>
                  THEN blank_line(lines, cp, le)
                  ELSE text_paragraph(paras[i], lines, cp)
         IN  RenderLines(paras, i + 1, r.lines, r.cp, r.le)

\* the string a call of get_html_content returns
get_html_content == Join(RenderLines(Split(content, "\n"), 1, <<>>, 0, FALSE), <<"\n">>)

\* EmailSenderWindow.validate, given whether test_connection succeeds
validate(connection_ok) ==
    /\ connection_ok
    /\ validate_template(subject, content,
                         merge_params(get_custom_param_identifiers))[1]

\* RecipientsService.update_status on the list data: the first row whose
\* 'email' is email gets the status; reading 'email' of a row without that
\* key raises KeyError
RecipientsService_update_status(data, email, status) ==
    LET stops == {i \in 1..Len(data) :
                     \/ EmailKey \notin DictKeys(data[i])
                     \/ DictGet(data[i], EmailKey, <<>>) = email}
    IN  IF stops = {} THEN [raised |-> FALSE, found |-> FALSE, data |-> data]
        ELSE LET i == CHOOSE i \in stops : \A x \in stops : i <= x
             IN  IF EmailKey \notin DictKeys(data[i])
                 THEN [raised |-> TRUE, found |-> FALSE, data |-> data]
                 ELSE [raised |-> FALSE, found |-> TRUE,
                       data |-> [data EXCEPT ![i] = DictSet(data[i], StatusKey, status)]]

\* the position of the status column
StatusIndex(columns) == CHOOSE c \in 1..Len(columns) : columns[c] = StatusKey

\* RecipientsPanel.update_status on the list data and the table rows: when
\* the service found the address, the first table row whose first value is
\* the address gets the status
RecipientsPanel_update_status(data, rows, email, status) ==
    LET r == RecipientsService_update_status(data, email, status)
        items == {i \in 1..Len(rows) : rows[i][1] = email}
    IN  [raised |-> r.raised,
         data |-> r.data,
         rows |-> IF r.found /\ items # {}
                  THEN LET i == CHOOSE i \in items : \A x \in items : i <= x
                       IN  [rows EXCEPT ![i][StatusIndex(current_columns)] = status]
                  ELSE rows]

\* send_emails_begin entering the loop whatever validate() returned and
\* whether or not there is a recipient
send_emails_begin_unchecked ==
    /\ send_pc = "idle"
    /\ \E test_ok \in BOOLEAN :
          validated' = validate(test_ok)
    /\ outcome' = "sending"
    /\ send_pc' = "loop"
    /\ send_i' = 1
    /\ attempts' = <<>>
    /\ UNCHANGED <<serviceVars, hash_order, renderVars, staticVars,
                   callerVars, previewVars, smtpVars,
                   recipientVars>>

\* send_emails up to the loop: validate(), the test for an empty list and
\* the connection opened by `with EmailService(...)`
send_emails_begin ==
    /\ send_pc = "idle"
    /\ \E test_ok \in BOOLEAN, connect_ok \in BOOLEAN :
          /\ validated' = validate(test_ok)
          /\ IF ~ validated' THEN
                /\ outcome' = "invalid"
                /\ UNCHANGED send_pc
             ELSE IF recipients_data = <<>> THEN
                /\ outcome' = "empty"
                /\ UNCHANGED send_pc
             ELSE IF ~ connect_ok THEN
                /\ outcome' = "connect_failed"
                /\ UNCHANGED send_pc
             ELSE
                /\ outcome' = "sending"
                /\ send_pc' = "loop"
          /\ send_i' = 1
          /\ attempts' = <<>>
    /\ UNCHANGED <<serviceVars, hash_order, renderVars, staticVars,
                   callerVars, previewVars, smtpVars,
                   recipientVars>>

\* send_emails: the subject and the content passed to send_email for the
\* row recipient
send_subject(recipient) == replace_variables(subject, recipient)
send_content(recipient) ==
    IF is_html
    THEN replace_variables(get_html_content, recipient)
    ELSE replace_variables(content, recipient)

\* one iteration of `for recipient in recipients`: the try block and its
\* handler; a KeyError raised by the handler itself leaves the loop for the
\* outer handler
send_emails_recipient ==
    /\ send_pc = "loop"
    /\ send_i <= Len(recipients_data)
    /\ LET recipient == recipients_data[send_i]
           to_email == DictGet(recipient, EmailKey, <<>>)
           sending == RecipientsPanel_update_status(recipients_data, tree_rows,
                                                    to_email, StatusSending)
       IN  IF EmailKey \notin DictKeys(recipient) \/ sending.raised THEN
              /\ send_pc' = "idle"
              /\ outcome' = "aborted"
              /\ UNCHANGED <<recipients_data, tree_rows, send_i, attempts>>
           ELSE \E success \in BOOLEAN :
              LET row == sending.data[send_i]
                  status == IF success THEN StatusSent ELSE StatusFailed
                  updated == RecipientsPanel_update_status(sending.data, sending.rows,
                                                           to_email, status)
              IN  /\ attempts' = Append(attempts,
                                        [to_email |-> to_email,
                                         subject |-> send_subject(row),
                                         content |-> send_content(row),
                                         is_html |-> is_html])
                  /\ recipients_data' = updated.data
                  /\ tree_rows' = updated.rows
                  /\ send_i' = send_i + 1
                  /\ UNCHANGED <<send_pc, outcome>>
    /\ UNCHANGED <<serviceVars, hash_order, renderVars, staticVars,
                   callerVars, previewVars, smtpVars,
                   custom_params, current_columns, template_params,
                   editing_enabled, validated>>

\* the loop is over: the connection is closed and the success dialog shown
send_emails_end ==
    /\ send_pc = "loop"
    /\ send_i > Len(recipients_data)
    /\ send_pc' = "idle"
    /\ outcome' = "completed"
    /\ UNCHANGED <<serviceVars, hash_order, renderVars, staticVars,
                   callerVars, previewVars, smtpVars,
                   recipientVars, send_i, attempts, validated>>

\* templates of the window whose list is imported and sent: a plain text
\* without placeholder and an HTML text that is one placeholder
AppContents == {<<"a">>, <<"{", "a", "}">>}

\* the tag maps get_template_config reads off the text widget: no format, the
\* first character bold, and the first character in a font applied with
\* apply_font
AppTagMaps == {
    EmptyMap,
    Str(0) :> <<Bold>>,
    Str(0) :> <<FontArial14>> }

\* the template typed into the window
AppTemplate ==
    /\ subject = <<>>
    /\ content \in AppContents
    /\ is_html = (content # <<"a">>)
    /\ tags \in IF is_html THEN AppTagMaps ELSE {EmptyMap}
    /\ font_family = "Times New Roman"
    /\ font_size = "12"
    /\ hash_order = <<Bold, Italic, Underline, Sel, FamilyArial, Size14, FontArial14>>

\* the window after construction, with a template typed in
InitApp ==
    /\ AppTemplate
    /\ RenderIdle
    /\ StaticIdle
    /\ OtherIdle

\* the handlers of the parameter panel and of the recipients panel
NextApp ==
    \/ import_csv
    \/ clear_recipients
    \/ save_edit
    \/ save_param
    \/ remove_param

SpecApp == InitApp /\ [][NextApp]_vars

\* the window when the send button is pressed: the user may have added the
\* parameter a and then may have imported one file that the panel accepted
InitSend ==
    /\ AppTemplate
    /\ RenderIdle
    /\ StaticIdle
    /\ CallerIdle
    /\ SendIdle
    /\ PreviewIdle
    /\ SmtpIdle
    /\ custom_params \in {<<>>, <<<<DisplayNameD, KeyA>>>>}
    /\ template_params = IF custom_params = <<>> THEN {}
                         ELSE merge_params(get_custom_param_identifiers)
    /\ current_columns = get_display_columns(get_custom_param_identifiers)
                         \o <<StatusKey>>
    /\ \/ /\ recipients_data = <<>>
          /\ editing_enabled = TRUE
       \/ /\ recipients_data \in
                {RecipientsService_import_csv(file, <<>>).data :
                    file \in CsvFilesOf(MaxSendRows)} \ {<<>>}
          /\ RecipientsService_validate_template_params(recipients_data,
                                                        template_params)[1]
          /\ editing_enabled = FALSE
    /\ tree_rows = refresh_treeview(recipients_data, current_columns)

NextSend ==
    \/ send_emails_begin
    \/ send_emails_recipient
    \/ send_emails_end

SpecSend == InitSend /\ [][NextSend]_vars

-----------------------------------------------------------------------------
(* ParameterService and RecipientsService called directly, as the tests    *)
(* and the panels call them: call is the method that returned last and ret  *)
(* the tuple it returned.  The messages are stand-ins for the source's      *)
(* literals; "" is the empty message of a success.                          *)

\* most custom parameters defined at a time
MaxParams == 2

\* identifiers passed to add_param and remove_param
IdentifierUpperA == <<"A">>
IdentifierA1 == <<"a", "_", "1">>
ServiceIdentifiers == {
    KeyA, IdentifierUpperA, IdentifierA1, EmailKey,
    <<"_">>, <<"a", "-">>, <<>> }

\* ParameterService.validate_param_identifier: the error message
validate_param_identifier_message(identifier, existing_ids) ==
    IF identifier = <<>> THEN "identifier is empty"
    ELSE IF Lower(identifier) \in {Lower(id) : id \in existing_ids}
    THEN "identifier exists"
    ELSE IF ~ validate_param_identifier(identifier, existing_ids)
    THEN "identifier format"
    ELSE ""

\* ParameterService.add_param
ParameterService_add_param ==
    /\ \E identifier \in ServiceIdentifiers :
          LET existing_ids == Range(get_custom_param_identifiers)
              is_valid == validate_param_identifier(identifier, existing_ids)
              error_msg == validate_param_identifier_message(identifier, existing_ids)
          IN  IF ~ is_valid
              THEN /\ ret' = <<FALSE, error_msg>>
                   /\ UNCHANGED custom_params
              ELSE /\ Len(custom_params) < MaxParams
                   /\ custom_params' = Append(custom_params, <<DisplayNameD, identifier>>)
                   /\ ret' = <<TRUE, "">>
    /\ call' = "add_param"
    /\ UNCHANGED <<serviceVars, hash_order, renderVars, variables, available_params,
                   callerVars, previewVars, smtpVars,
                   recipients_data, tree_rows, current_columns,
                   template_params, editing_enabled, sendVars>>

\* ParameterService.remove_param
ParameterService_remove_param ==
    /\ \E identifier \in ServiceIdentifiers :
          LET found == {i \in 1..Len(custom_params) :
                           Lower(custom_params[i][2]) = Lower(identifier)}
          IN  IF found = {}
              THEN /\ ret' = <<FALSE>>
                   /\ UNCHANGED custom_params
              ELSE LET i == CHOOSE i \in found : \A x \in found : i <= x
                   IN  /\ custom_params' = SubSeq(custom_params, 1, i - 1)
                                           \o SubSeq(custom_params, i + 1,
                                                     Len(custom_params))
                       /\ ret' = <<TRUE>>
    /\ call' = "remove_param"
    /\ UNCHANGED <<serviceVars, hash_order, renderVars, variables, available_params,
                   callerVars, previewVars, smtpVars,
                   recipients_data, tree_rows, current_columns,
                   template_params, editing_enabled, sendVars>>

\* ParameterService.clear_custom_params
clear_custom_params ==
    /\ custom_params' = <<>>
    /\ ret' = <<>>
    /\ call' = "clear_custom_params"
    /\ UNCHANGED <<serviceVars, hash_order, renderVars, variables, available_params,
                   callerVars, previewVars, smtpVars,
                   recipients_data, tree_rows, current_columns,
                   template_params, editing_enabled, sendVars>>

\* display names of the system parameters
DisplayNameOfName == <<"N">>
DisplayNameOfEmail == <<"E">>

\* ParameterService.get_default_params
get_default_params == <<<<NameKey, DisplayNameOfName>>, <<EmailKey, DisplayNameOfEmail>>>>

RECURSIVE AddDisplayNames(_, _)
\* for display_name, identifier in cls._custom_params:
\*     names[identifier.lower()] = display_name
AddDisplayNames(names, params) ==
    IF params = <<>> THEN names
    ELSE AddDisplayNames(DictSet(names, Lower(params[1][2]), params[1][1]),
                         Tail(params))

\* ParameterService.get_all_param_display_names
get_all_param_display_names == AddDisplayNames(get_default_params, custom_params)

\* the message RecipientsService.import_csv returns for a file
import_csv_message(file) ==
    IF ~ file.readable THEN "import failed"
    ELSE IF read_recipients(file) = <<>> THEN "file is empty"
    ELSE IF ~ validate_required_params(DictKeys(read_recipients(file)[1]))[1]
    THEN "required columns missing"
    ELSE ""

\* RecipientsService.import_csv
call_import_csv ==
    /\ \E file \in CsvFiles :
          LET r == RecipientsService_import_csv(file, recipients_data)
          IN  /\ recipients_data' = r.stored
              /\ ret' = <<r.success, import_csv_message(file), r.data>>
    /\ call' = "import_csv"
    /\ UNCHANGED <<serviceVars, hash_order, renderVars, variables, available_params,
                   callerVars, previewVars, smtpVars,
                   custom_params, tree_rows, current_columns,
                   template_params, editing_enabled, sendVars>>

\* RecipientsService.clear_data
clear_data ==
    /\ recipients_data' = <<>>
    /\ ret' = <<>>
    /\ call' = "clear_data"
    /\ UNCHANGED <<serviceVars, hash_order, renderVars, variables, available_params,
                   callerVars, previewVars, smtpVars,
                   custom_params, tree_rows, current_columns,
                   template_params, editing_enabled, sendVars>>

\* the two services after construction
InitServices ==
    /\ ServiceDefaults
    /\ subject = <<>>
    /\ content = <<>>
    /\ RenderIdle
    /\ StaticIdle
    /\ OtherIdle

NextServices ==
    \/ ParameterService_add_param
    \/ ParameterService_remove_param
    \/ clear_custom_params
    \/ call_import_csv
    \/ clear_data

SpecServices == InitServices /\ [][NextServices]_vars

-----------------------------------------------------------------------------
(* EmailSenderWindow.preview_emails and the PreviewWindow.  The window is   *)
(* modal: while it is open no other handler of the main window runs.        *)

\* most recipients previewed
PreviewLimit == 10
\* most rows of the list that is previewed
MaxPreviewRows == 11

Min(a, b) == IF a <= b THEN a ELSE b

\* the list imported from a file with the columns email, name and a and n
\* data rows, with two addresses and two values of a in turn
PreviewList(n) ==
    RecipientsService_import_csv(
        [readable |-> TRUE,
         headers |-> <<EmailKey, NameKey, KeyA>>,
         rows |-> [i \in 1..n |->
                      IF i % 2 = 1 THEN <<EmailA, NameN, ValueX>>
                      ELSE <<EmailB, NameN, ValueRefB>>]],
        <<>>).stored

\* contents of the template that is previewed
PreviewContents == {<<"{", "a", "}">>, <<"{", "a", "}", " ", "&">>}

\* update_preview showing the substituted content in HTML mode too, without
\* rendering it
update_preview_unrendered(data, page, old_subject, old_body) ==
    LET index == IF page < 0 THEN Len(data) + page + 1 ELSE page + 1
    IN  IF index \notin 1..Len(data)
        THEN [subject |-> old_subject, body |-> old_body]
        ELSE [subject |-> replace_variables(subject, data[index]),
              body |-> replace_variables(content, data[index])]

\* PreviewWindow.update_preview at page: the subject and the body shown.
\* preview_data[page] past the list's end raises IndexError, which the
\* method catches: the labels keep what they showed.
update_preview(data, page, old_subject, old_body) ==
    LET index == IF page < 0 THEN Len(data) + page + 1 ELSE page + 1
    IN  IF index \notin 1..Len(data)
        THEN [subject |-> old_subject, body |-> old_body]
        ELSE LET recipient == data[index]
                 shown_content == replace_variables(content, recipient)
                 current_html == replace_variables(get_html_content, recipient)
             IN  [subject |-> replace_variables(subject, recipient),
                  body |-> IF is_html THEN current_html ELSE shown_content]

\* EmailSenderWindow.preview_emails and PreviewWindow.__init__
preview_emails ==
    /\ send_pc = "idle"
    /\ ~ preview_open
    /\ IF recipients_data = <<>>
       THEN UNCHANGED previewVars
       ELSE LET data == SubSeq(recipients_data, 1,
                               Min(PreviewLimit, Len(recipients_data)))
                shown == update_preview(data, 0, <<>>, <<>>)
            IN  /\ preview_open' = TRUE
                /\ preview_data' = data
                /\ current_page' = 0
                /\ total_pages' = Len(data)
                /\ shown_subject' = shown.subject
                /\ shown_body' = shown.body
    /\ call' = "preview_emails"
    /\ UNCHANGED <<serviceVars, hash_order, renderVars, variables, available_params,
                   ret, callerVars, guiVars, smtpVars>>

\* next_page letting the page reach total_pages
next_page_past_end ==
    /\ preview_open
    /\ IF current_page < total_pages
       THEN LET shown == update_preview(preview_data, current_page + 1,
                                        shown_subject, shown_body)
            IN  /\ current_page' = current_page + 1
                /\ shown_subject' = shown.subject
                /\ shown_body' = shown.body
       ELSE UNCHANGED <<current_page, shown_subject, shown_body>>
    /\ call' = "next_page"
    /\ UNCHANGED <<serviceVars, hash_order, renderVars, variables, available_params,
                   ret, callerVars, guiVars, smtpVars, preview_open, preview_data,
                   total_pages>>

\* PreviewWindow.prev_page
prev_page ==
    /\ preview_open
    /\ IF current_page > 0
       THEN LET shown == update_preview(preview_data, current_page - 1,
                                        shown_subject, shown_body)
            IN  /\ current_page' = current_page - 1
                /\ shown_subject' = shown.subject
                /\ shown_body' = shown.body
       ELSE UNCHANGED <<current_page, shown_subject, shown_body>>
    /\ call' = "prev_page"
    /\ UNCHANGED <<serviceVars, hash_order, renderVars, variables, available_params,
                   ret, callerVars, guiVars, smtpVars, preview_open, preview_data,
                   total_pages>>

\* PreviewWindow.next_page
next_page ==
    /\ preview_open
    /\ IF current_page < total_pages - 1
       THEN LET shown == update_preview(preview_data, current_page + 1,
                                        shown_subject, shown_body)
            IN  /\ current_page' = current_page + 1
                /\ shown_subject' = shown.subject
                /\ shown_body' = shown.body
       ELSE UNCHANGED <<current_page, shown_subject, shown_body>>
    /\ call' = "next_page"
    /\ UNCHANGED <<serviceVars, hash_order, renderVars, variables, available_params,
                   ret, callerVars, guiVars, smtpVars, preview_open, preview_data,
                   total_pages>>

\* the window's close button: destroy
destroy ==
    /\ preview_open
    /\ preview_open' = FALSE
    /\ preview_data' = <<>>
    /\ current_page' = 0
    /\ total_pages' = 0
    /\ shown_subject' = <<>>
    /\ shown_body' = <<>>
    /\ call' = "destroy"
    /\ UNCHANGED <<serviceVars, hash_order, renderVars, variables, available_params,
                   ret, callerVars, guiVars, smtpVars>>

\* the main window with a template, the parameter a defined and a list
\* imported (or none), before the preview button is pressed
InitPreview ==
    /\ subject = Placeholder(NameKey)
    /\ content \in PreviewContents
    /\ is_html \in BOOLEAN
    /\ tags \in IF is_html THEN AppTagMaps ELSE {EmptyMap}
    /\ font_family = "Times New Roman"
    /\ font_size = "12"
    /\ hash_order = <<Bold, Italic, Underline, Sel, FamilyArial, Size14, FontArial14>>
    /\ RenderIdle
    /\ StaticIdle
    /\ CallerIdle
    /\ SendIdle
    /\ PreviewIdle
    /\ SmtpIdle
    /\ custom_params = <<<<DisplayNameD, KeyA>>>>
    /\ template_params = merge_params(get_custom_param_identifiers)
    /\ current_columns = get_display_columns(get_custom_param_identifiers)
                         \o <<StatusKey>>
    /\ \E n \in 0..MaxPreviewRows : recipients_data = PreviewList(n)
    /\ editing_enabled = (recipients_data = <<>>)
    /\ tree_rows = refresh_treeview(recipients_data, current_columns)

NextPreview ==
    \/ preview_emails
    \/ prev_page
    \/ next_page
    \/ destroy

SpecPreview == InitPreview /\ [][NextPreview]_vars

-----------------------------------------------------------------------------
(* EmailService.  server is what _server holds: "None", or the SMTP object  *)
(* of a connection that is "connected" (opened, no STARTTLS yet),           *)
(* "encrypted" (STARTTLS done, not logged in) or "logged_in".  The SMTP      *)
(* server is the environment: it chooses where connect() fails and whether  *)
(* a message is accepted.                                                   *)

\* most send_message calls recorded
MaxSmtpSends == 2

\* how a connect() goes: smtplib.SMTP(...) raises, starttls() raises, login()
\* raises, or all three return
ConnectOutcomes == {"refused", "starttls_failed", "login_failed", "ok"}

\* EmailService.connect on a service whose _server is held: what _server is
\* afterwards and whether the exception was raised again
connect(connect_outcome, held) ==
    IF connect_outcome = "refused" THEN [server |-> held, raised |-> TRUE]
    ELSE IF connect_outcome = "starttls_failed"
    THEN [server |-> "connected", raised |-> TRUE]
    ELSE IF connect_outcome = "login_failed"
    THEN [server |-> "encrypted", raised |-> TRUE]
    ELSE [server |-> "logged_in", raised |-> FALSE]

\* EmailService.connect
call_connect ==
    /\ \E connect_outcome \in ConnectOutcomes :
          LET c == connect(connect_outcome, server)
          IN  /\ server' = c.server
              /\ ret' = <<c.raised>>
    /\ call' = "connect"
    /\ UNCHANGED <<serviceVars, hash_order, renderVars, variables, available_params,
                   callerVars, guiVars, previewVars, smtp_log>>

\* EmailService.disconnect: quit() may raise, which is caught; finally
\* _server = None
call_disconnect ==
    /\ server' = "None"
    /\ ret' = <<>>
    /\ call' = "disconnect"
    /\ UNCHANGED <<serviceVars, hash_order, renderVars, variables, available_params,
                   callerVars, guiVars, previewVars, smtp_log>>

\* EmailService.test_connection: connect(), then disconnect() unless
\* connect() raised
call_test_connection ==
    /\ \E connect_outcome \in ConnectOutcomes :
          LET c == connect(connect_outcome, server)
          IN  IF c.raised
              THEN /\ server' = c.server
                   /\ ret' = <<FALSE, "error">>
              ELSE /\ server' = "None"
                   /\ ret' = <<TRUE, "connected">>
    /\ call' = "test_connection"
    /\ UNCHANGED <<serviceVars, hash_order, renderVars, variables, available_params,
                   callerVars, guiVars, previewVars, smtp_log>>

\* EmailService.send_email: connect() when _server is None, then
\* send_message over whatever _server holds; every exception is caught
call_send_email ==
    /\ Len(smtp_log) < MaxSmtpSends
    /\ \E to_email \in Emails, connect_outcome \in ConnectOutcomes,
          accepted \in BOOLEAN :
          LET c == IF server = "None" THEN connect(connect_outcome, server)
                   ELSE [server |-> server, raised |-> FALSE]
          IN  /\ server' = c.server
              /\ IF c.raised
                 THEN /\ ret' = <<FALSE>>
                      /\ UNCHANGED smtp_log
                 ELSE /\ ret' = <<accepted>>
                      /\ smtp_log' = Append(smtp_log,
                                            [to_email |-> to_email,
                                             over |-> c.server,
                                             accepted |-> accepted])
    /\ call' = "send_email"
    /\ UNCHANGED <<serviceVars, hash_order, renderVars, variables, available_params,
                   callerVars, guiVars, previewVars>>

\* an EmailService after construction
InitSmtp ==
    /\ ServiceDefaults
    /\ subject = <<>>
    /\ content = <<>>
    /\ RenderIdle
    /\ StaticIdle
    /\ OtherIdle

NextSmtp ==
    \/ call_connect
    \/ call_disconnect
    \/ call_test_connection
    \/ call_send_email

SpecSmtp == InitSmtp /\ [][NextSmtp]_vars

-----------------------------------------------------------------------------
(* The content's paragraphs and runs, read off the content and the tag map *)
(* directly (not through the renderer's locals).                           *)

\* the S's m-th smallest element
Nth(S, m) == CHOOSE x \in S : Cardinality({y \in S : y < x}) = m - 1

\* zero-based offsets of the newlines of content
NewlineOffsets == {i \in 0..(Len(content) - 1) : content[i + 1] = "\n"}
NumParagraphs == Cardinality(NewlineOffsets) + 1
\* offset of the k-th paragraph's first character, and one past its last
ParaStart(k) == IF k = 1 THEN 0 ELSE Nth(NewlineOffsets, k - 1) + 1
ParaEnd(k) == IF k = NumParagraphs THEN Len(content) ELSE Nth(NewlineOffsets, k)
ParaLen(k) == ParaEnd(k) - ParaStart(k)
NonEmptyParas == {k \in 1..NumParagraphs : ParaLen(k) > 0}
\* the first paragraph of each maximal run of empty paragraphs
EmptyRunStarts ==
    {k \in 1..NumParagraphs : ParaLen(k) = 0 /\ (k = 1 \/ ParaLen(k - 1) > 0)}
\* positions of paragraph k at which a maximal run of equal tag sets starts
RunStarts(k) ==
    {i \in 0..(ParaLen(k) - 1) :
        i = 0 \/ CleanTags(ParaStart(k) + i) # CleanTags(ParaStart(k) + i - 1)}

\* s holds t at index i
SubAt(s, i, t) == i + Len(t) - 1 <= Len(s) /\ SubSeq(s, i, i + Len(t) - 1) = t
\* s holds t ending at index i
EndsAt(s, i, t) == i - Len(t) + 1 >= 1 /\ SubSeq(s, i - Len(t) + 1, i) = t
Count(s, t) == Cardinality({i \in 1..Len(s) : SubAt(s, i, t)})
Contains(s, t) == \E i \in 1..Len(s) : SubAt(s, i, t)

\* the lines emitted between the m-th '<p>' line and its '</p>' line
OpenLines == {i \in 1..Len(html_lines) : html_lines[i] = POpen}
Units(m) ==
    LET i == Nth(OpenLines, m)
        j == CHOOSE j \in (i + 1)..Len(html_lines) :
                 /\ html_lines[j] = PClose
                 /\ \A x \in (i + 1)..(j - 1) : html_lines[x] # PClose
    IN  SubSeq(html_lines, i + 1, j - 1)
IsSpan(u) == StartsWith(u, SpanOpen)
\* the text a unit wraps: what follows the span's opening tag, without '</span>'
UnitText(u) ==
    IF IsSpan(u)
    THEN LET g == CHOOSE g \in 1..Len(u) :
                      u[g] = ">" /\ \A x \in 1..(g - 1) : u[x] # ">"
         IN  SubSeq(u, g + 1, Len(u) - Len(SpanClose))
    ELSE u
\* the value of a span's style attribute
StyleAttr(u) ==
    LET a == Len(SpanOpen) + 1
        g == CHOOSE g \in a..Len(u) : u[g] = "\"" /\ \A x \in a..(g - 1) : u[x] # "\""
    IN  SubSeq(u, a, g - 1)

-----------------------------------------------------------------------------
(* Claims about get_html_content.                                          *)

\* C1: within a paragraph the renderer emits exactly one unit per maximal run
\* of offsets with equal tag sets ('sel' removed): the j-th unit of a
\* paragraph holds the escaped text of its j-th maximal run, as a span exactly
\* when the run's tag set is not empty.
C1_OneUnitPerRun ==
    pc = "done" =>
        /\ Cardinality(OpenLines) = Cardinality(NonEmptyParas)
        /\ \A m \in 1..Cardinality(NonEmptyParas) :
              LET k == Nth(NonEmptyParas, m)
                  units == Units(m)
              IN  /\ Len(units) = Cardinality(RunStarts(k))
                  /\ \A j \in 1..Len(units) :
                        LET b == Nth(RunStarts(k), j)
                            e == IF j = Len(units) THEN ParaLen(k)
                                 ELSE Nth(RunStarts(k), j + 1)
                            text == SubSeq(content, ParaStart(k) + b + 1,
                                           ParaStart(k) + e)
                        IN  /\ UnitText(units[j]) = EscapedText(text)
                            /\ IsSpan(units[j]) <=> CleanTags(ParaStart(k) + b) # {}

\* 'aaa' with bold on offsets 0-1 (offset 1 also selected) renders as one bold
\* span around 'aa' followed by 'a' unwrapped
C1_Witness ==
    /\ pc = "done"
    /\ content = <<"a", "a", "a">>
    /\ tags = (<<"0">> :> <<Bold>> @@ <<"1">> :> <<Sel, Bold>>)
    /\ html_lines = <<POpen,
                      SpanOpen \o StyleBold \o SpanMid \o <<"a", "a">> \o SpanClose,
                      <<"a">>,
                      PClose>>

Entities == {
    Nbsp,
    <<"&","a","m","p",";">>,
    <<"&","l","t",";">>,
    <<"&","g","t",";">>,
    <<"&","q","u","o","t",";">>,
    <<"&","#","x","2","7",";">> }

\* C2: rendered with an empty tag map, the output holds '<' and '>' only in
\* the p tags and '&' only at the start of a character entity, and holds one
\* &lt; / &gt; / &amp; per '<' / '>' / '&' of the content.
C2_InputMarkupEscaped ==
    (pc = "done" /\ tags = EmptyMap) =>
        /\ \A i \in 1..Len(html) :
              /\ html[i] = "<" => SubAt(html, i, POpen) \/ SubAt(html, i, PClose)
              /\ html[i] = ">" => EndsAt(html, i, POpen) \/ EndsAt(html, i, PClose)
              /\ html[i] = "&" => \E e \in Entities : SubAt(html, i, e)
        /\ Count(html, <<"&","l","t",";">>) = Count(content, <<"<">>)
        /\ Count(html, <<"&","g","t",";">>) = Count(content, <<">">>)
        /\ Count(html, <<"&","a","m","p",";">>) = Count(content, <<"&">>)

C2_Witness ==
    /\ pc = "done"
    /\ tags = EmptyMap
    /\ content = <<"<", "&", ">">>
    /\ html = POpen \o <<"\n">>
              \o <<"&","l","t",";">> \o <<"&","a","m","p",";">> \o <<"&","g","t",";">>
              \o <<"\n">> \o PClose

\* the style attribute of a tag set with its declarations in the order
\* bold, italic, underline, font-family, font-size
CanonicalStyle(S) ==
    Join((IF Bold \in S THEN <<StyleBold>> ELSE <<>>)
         \o (IF Italic \in S THEN <<StyleItalic>> ELSE <<>>)
         \o (IF Underline \in S THEN <<StyleUnderline>> ELSE <<>>)
         \o (IF FamilyArial \in S THEN <<StyleFamily(<<"A","r","i","a","l">>)>> ELSE <<>>)
         \o (IF Size14 \in S THEN <<StyleSize(<<"1","4">>)>> ELSE <<>>),
         <<";", " ">>)

\* C3: every span's style attribute lists its declarations in the order
\* font-weight, font-style, text-decoration, font-family, font-size, whatever
\* the iteration order of the run's tag set.
C3_StyleOrderFixed ==
    pc = "done" =>
        \A i \in 1..Len(html_lines) :
            IsSpan(html_lines[i]) =>
                \E S \in SUBSET {Bold, Italic, Underline, FamilyArial, Size14} :
                    StyleAttr(html_lines[i]) = CanonicalStyle(S)

\* C4: the output holds one paragraph element per non-empty paragraph of the
\* content and one per maximal run of empty paragraphs.
C4_ParagraphCount ==
    pc = "done" =>
        Count(html, POpen) = Cardinality(NonEmptyParas) + Cardinality(EmptyRunStarts)

\* 'p\n\np' gives 3 paragraph elements
C4_Witness ==
    /\ pc = "done"
    /\ content = <<"p", "\n", "\n", "p">>
    /\ Count(html, POpen) = 3
    /\ html_lines = <<POpen, <<"p">>, PClose, PBlank, POpen, <<"p">>, PClose>>

\* C5: at the start of each iteration over the paragraphs, current_pos is the
\* absolute offset in content of the paragraph's first character, so position
\* pos of the paragraph is the content's character at current_pos + pos.
C5_CurrentPosIsOffset ==
    (pc = "loop" /\ pidx <= Len(paragraphs)) =>
        /\ Len(paragraphs) = NumParagraphs
        /\ current_pos = ParaStart(pidx)
        /\ Len(paragraphs[pidx]) = ParaLen(pidx)
        /\ \A pos \in 0..(Len(paragraphs[pidx]) - 1) :
              paragraphs[pidx][pos + 1] = content[current_pos + pos + 1]

\* the third paragraph of '\n\na', after an emitted and a skipped blank line,
\* with a tag stored at its character's offset
C5_Witness ==
    /\ pc = "loop"
    /\ pidx = 3
    /\ paragraphs = << <<>>, <<>>, <<"a">> >>
    /\ html_lines = <<PBlank>>
    /\ current_pos = 2
    /\ CleanTags(current_pos) = {Bold}

RECURSIVE Repeat(_, _)
Repeat(s, n) == IF n = 0 THEN <<>> ELSE s \o Repeat(s, n - 1)
RECURSIVE Flatten(_)
Flatten(parts) == IF parts = <<>> THEN <<>> ELSE Head(parts) \o Flatten(Tail(parts))
AmpNbsp == <<"&", "a", "m", "p", ";", "n", "b", "s", "p", ";">>

\* C16: every space of a non-empty paragraph comes out as exactly one &nbsp;
\* (the only other &nbsp; are those of the blank lines), no text holds a
\* literal space or '&amp;nbsp;', and a paragraph made only of spaces is a
\* <p> ... </p> paragraph whose text is one &nbsp; per space.
C16_SpacesBecomeNbsp ==
    pc = "done" =>
        /\ Count(html, Nbsp) = Count(content, <<" ">>) + Cardinality(EmptyRunStarts)
        /\ ~ Contains(html, AmpNbsp)
        /\ Cardinality(OpenLines) = Cardinality(NonEmptyParas)
        /\ \A m \in 1..Cardinality(NonEmptyParas) :
              LET k == Nth(NonEmptyParas, m)
                  text == SubSeq(content, ParaStart(k) + 1, ParaEnd(k))
                  out == Flatten([j \in 1..Len(Units(m)) |-> UnitText(Units(m)[j])])
              IN  /\ ~ Contains(out, <<" ">>)
                  /\ Count(out, Nbsp) = Count(text, <<" ">>)
                  /\ (\A x \in 1..Len(text) : text[x] = " ") =>
                        out = Repeat(Nbsp, Len(text))

\* '& ' and then a paragraph of two spaces
C16_Witness ==
    /\ pc = "done"
    /\ content = <<"&", " ", "\n", " ">>
    /\ html_lines = <<POpen, <<"&", "a", "m", "p", ";">> \o Nbsp, PClose,
                      POpen, Nbsp, PClose>>

-----------------------------------------------------------------------------
(* Claims about replace_variables and the parameter extraction.            *)

BraceFree(s) == \A i \in 1..Len(s) : s[i] \notin {"{", "}"}
\* the braces of t do not nest: a '}' stands between any two '{'
NonNested(t) ==
    \A i, j \in 1..Len(t) :
        (i < j /\ t[i] = "{" /\ t[j] = "{") => \E k \in (i + 1)..(j - 1) : t[k] = "}"
KeysOf(items) == {items[i][1] : i \in 1..Len(items)}

RECURSIVE SubstOnce(_, _)
\* t with its placeholders replaced in one pass, left to right: a value is
\* emitted and never scanned (where two keys' placeholders start at the same
\* place, the dict's first key wins)
SubstOnce(t, items) ==
    IF t = <<>> THEN <<>>
    ELSE LET hits == {i \in 1..Len(items) : StartsWith(t, Placeholder(items[i][1]))}
         IN  IF hits = {} THEN <<t[1]>> \o SubstOnce(Tail(t), items)
             ELSE LET i == CHOOSE i \in hits : \A x \in hits : i <= x
                  IN  items[i][2]
                      \o SubstOnce(SubSeq(t, Len(Placeholder(items[i][1])) + 1, Len(t)),
                                   items)

\* C6: replace_variables is non-recursive: in a template whose own braces do
\* not nest, text introduced by a value is never substituted, so the result is
\* the one-pass substitution; '{a}' with {a: '{b}', b: 'X'} gives '{b}'.
C6_NonRecursive ==
    (call = "replace_variables" /\ NonNested(content)) =>
        ret = SubstOnce(content, variables)

\* C7: for a template whose braces do not nest and values without braces,
\* replace_variables returns the template with every '{k}' replaced by
\* variables[k] and every other character unchanged and in order.
C7_SubstitutesEveryPlaceholder ==
    (/\ call = "replace_variables"
     /\ NonNested(content)
     /\ \A i \in 1..Len(variables) : BraceFree(variables[i][2])) =>
        ret = SubstOnce(content, variables)

\* '{a}{b}' with a = 'X', b = '' gives 'X'
C7_Witness ==
    /\ call = "replace_variables"
    /\ content = <<"{", "a", "}", "{", "b", "}">>
    /\ variables = <<<<KeyA, ValueX>>, <<KeyB, <<>>>>>>
    /\ ret = <<"X">>

\* C8 as stated: every placeholder the extraction finds in the template whose
\* identifier is not a key is still literally present in the result.
C8_UnknownPlaceholderKept ==
    call = "replace_variables" =>
        \A n \in validate_template_params(content) :
            n \notin KeysOf(variables) => Contains(ret, Placeholder(n))

\* C8, amended: every placeholder of the template whose identifier holds no
\* '{' and is not a key is still literally present in the result, when no key
\* holds a brace.
C8_UnknownPlainPlaceholderKept ==
    (call = "replace_variables" /\ \A k \in KeysOf(variables) : BraceFree(k)) =>
        \A n \in validate_template_params(content) :
            (n \notin KeysOf(variables) /\ BraceFree(n)) =>
                Contains(ret, Placeholder(n))

\* '{a}{b}' with only a = 'X' gives 'X{b}'
C8_Witness ==
    /\ call = "replace_variables"
    /\ content = <<"{", "a", "}", "{", "b", "}">>
    /\ variables = <<<<KeyA, ValueX>>>>
    /\ ret = <<"X", "{", "b", "}">>

\* the <<i, j>> with t[i..j] of the form '{' + one or more non-'}' + '}'
FormPairs(t) ==
    {p \in (1..Len(t)) \X (1..Len(t)) :
        /\ t[p[1]] = "{"
        /\ t[p[2]] = "}"
        /\ p[2] >= p[1] + 2
        /\ \A x \in (p[1] + 1)..(p[2] - 1) : t[x] # "}"}
\* those not contained in a longer substring of the form
MaximalPairs(t) ==
    {p \in FormPairs(t) : ~ \E q \in FormPairs(t) : q[2] = p[2] /\ q[1] < p[1]}
Inner(t, p) == SubSeq(t, p[1] + 1, p[2] - 1)
MaxPlaceholders(t) == {Inner(t, p) : p \in MaximalPairs(t)}

\* C9 as stated: validate_template_params returns the inner strings of all
\* substrings of the form '{' + one or more characters other than '}' + '}'.
C9_AllSubstringsOfForm ==
    call = "validate_template_params" =>
        ret = {Inner(content, p) : p \in FormPairs(content)}

\* C9, amended: validate_template_params returns the inner strings of the
\* maximal substrings of that form; '{}' and unmatched braces give nothing.
C9_MaximalSubstringsOfForm ==
    call = "validate_template_params" => ret = MaxPlaceholders(content)

\* '{b}{}{' holds the placeholder b, an empty pair and an unmatched brace
C9_Witness ==
    /\ call = "validate_template_params"
    /\ content = <<"{", "b", "}", "{", "}", "{">>
    /\ ret = {KeyB}

\* C10: validate_template returns (ok, undefined) with undefined the
\* placeholders of subject and content that are not available, and ok true
\* exactly when undefined is empty.
C10_UndefinedIsUnionMinusAvailable ==
    call = "validate_template" =>
        /\ ret[2] = (MaxPlaceholders(subject) \cup MaxPlaceholders(content))
                    \ available_params
        /\ ret[1] <=> ret[2] = {}

\* subject '{a}', content 'a{b}' and only a available: (False, {b})
C10_Witness ==
    /\ call = "validate_template"
    /\ subject = <<"{", "a", "}">>
    /\ content = <<"a", "{", "b", "}">>
    /\ available_params = {KeyA}
    /\ ret = <<FALSE, {KeyB}>>

-----------------------------------------------------------------------------
(* Claims about a service that is used more than once.                     *)

\* C11: the selection marker is invisible: a render returns the string an
\* earlier render of the same content returned whenever its tag map is the
\* earlier one with 'sel' taken out of every list; 'sel' gives no span, no
\* style declaration and no text of its own.
C11_SelInvisible ==
    pc = "done" =>
        /\ \A i \in 1..Len(kept_html) :
              tags = StripSel(kept_html[i].tags) => html = kept_html[i].html
        /\ ~ Contains(html, Sel)
        /\ \A i \in 1..Len(html_lines) :
              IsSpan(html_lines[i]) => StyleAttr(html_lines[i]) = StyleBold

\* 'aa' with a selected bold character and a selected plain one, rendered,
\* stored again without 'sel' and rendered to the same string
C11_Witness ==
    /\ pc = "done"
    /\ content = <<"a", "a">>
    /\ Len(kept_html) = 1
    /\ kept_html[1].tags = (<<"0">> :> <<Sel, Bold>> @@ <<"1">> :> <<Sel>>)
    /\ tags = (<<"0">> :> <<Bold>> @@ <<"1">> :> <<>>)
    /\ html = kept_html[1].html
    /\ html_lines = <<POpen,
                      SpanOpen \o StyleBold \o SpanMid \o <<"a">> \o SpanClose,
                      <<"a">>,
                      PClose>>

\* a step of get_html_content (its start, a paragraph, its return) or a
\* return of replace_variables
PureCallStep ==
    \/ pc' = "loop"
    \/ pc = "loop"
    \/ ret' # ret
    \/ kept_ret' # kept_ret

BodyOpen  == <<"<", "b", "o", "d", "y">>
BodyClose == <<"<", "/", "b", "o", "d", "y", ">">>

\* C13: the string returned holds an opening '<body' tag before the paragraph
\* markup and a closing '</body>' tag after it, and one &nbsp; per space of
\* the content's text.
C13_BodyWrapped ==
    pc = "done" =>
        /\ \E i, j \in 1..Len(html) :
              /\ SubAt(html, i, BodyOpen)
              /\ SubAt(html, j, BodyClose)
              /\ \A x \in 1..Len(html) : SubAt(html, x, POpen) => (i < x /\ x < j)
        /\ Count(html, Nbsp) >= Count(content, <<" ">>)

\* C14: a tag map holding a key that is no str(offset) is rejected: the
\* renderer never returns a string for it.
C14_MalformedKeyRejected ==
    (\E key \in DOMAIN tags : \E i \in 1..Len(key) : key[i] \notin Range(Digit)) =>
        pc # "done"

-----------------------------------------------------------------------------
(* Claims about the recipient list and the send loop.                      *)

\* C15: every row the RecipientsService holds has the keys 'email' and
\* 'name', whatever the header spelling and the row lengths of the files
\* imported.
C15_RowsHaveEmailAndName ==
    \A i \in 1..Len(recipients_data) :
        {EmailKey, NameKey} \subseteq DictKeys(recipients_data[i])

StatusOf(row) == DictGet(row, StatusKey, <<>>)

\* C17: when send_emails has finished its loop, every row's status is 'sent'
\* or 'failed'.
C17_AllRowsSettled ==
    outcome = "completed" =>
        \A i \in 1..Len(recipients_data) :
            StatusOf(recipients_data[i]) \in {StatusSent, StatusFailed}

\* C18: an invocation that validated and connected has, when it returns,
\* made one send_email call per recipient, in list order, to the recipient's
\* address.
C18_OneAttemptPerRecipient ==
    outcome \in {"completed", "aborted"} =>
        /\ Len(attempts) = Len(recipients_data)
        /\ \A i \in 1..Len(attempts) :
              /\ EmailKey \in DictKeys(recipients_data[i])
              /\ attempts[i].to_email = DictGet(recipients_data[i], EmailKey, <<>>)

\* a step that calls send_email or changes a row's status
SendsOrMarks ==
    \/ Len(attempts') > Len(attempts)
    \/ \E i \in 1..Len(recipients_data) :
          /\ i <= Len(recipients_data')
          /\ StatusOf(recipients_data'[i]) # StatusOf(recipients_data[i])

\* C19: send_emails calls send_email or changes a status only in an
\* invocation whose validate() returned True and whose recipient list is not
\* empty.
C19_SendOnlyAfterValidation ==
    [][SendsOrMarks => (validated /\ recipients_data # <<>> /\ send_pc = "loop")]_vars

\* an invocation on a list of one recipient whose template names a parameter
\* that is not defined: nothing is sent, the row keeps its status
C19_Witness ==
    /\ outcome = "invalid"
    /\ ~ validated
    /\ content = <<"{", "a", "}">>
    /\ custom_params = <<>>
    /\ Len(recipients_data) = 1
    /\ StatusOf(recipients_data[1]) = StatusWaiting
    /\ attempts = <<>>

\* C20: the table shows the rows the RecipientsService holds, in the same
\* order: the row of each recipient holds its value of every column.
C20_TableShowsData ==
    /\ Len(tree_rows) = Len(recipients_data)
    /\ \A i \in 1..Len(tree_rows) :
          \A c \in 1..Len(current_columns) :
              tree_rows[i][c] = DictGet(recipients_data[i], current_columns[c], <<>>)

-----------------------------------------------------------------------------
(* Claims about the two services called directly.                          *)

\* the characters of an identifier: letters, digits and the underscore
IdentifierChars == AlnumChars \cup {"_"}

\* C22: every custom parameter identifier is non-empty, made of letters,
\* digits and underscores, and differs from every other one ignoring case;
\* an add_param that returns False returns a message and leaves the list as
\* it was.
C22_IdentifiersWellFormed ==
    /\ [](\A i \in 1..Len(custom_params) :
             LET id == custom_params[i][2]
             IN  /\ id # <<>>
                 /\ \A c \in 1..Len(id) : id[c] \in IdentifierChars
                 /\ \A j \in 1..Len(custom_params) :
                       j # i => Lower(custom_params[j][2]) # Lower(id))
    /\ [][(call' = "add_param" /\ ~ ret'[1]) =>
             (custom_params' = custom_params /\ ret'[2] # "")]_vars

\* two parameters are defined and an add_param of a third, which repeats
\* one of them in another case, was rejected
C22_Witness ==
    /\ call = "add_param"
    /\ ret = <<FALSE, "identifier exists">>
    /\ Len(custom_params) = 2
    /\ custom_params[1][2] = IdentifierUpperA

\* C25: an import_csv that fails returns (False, message, []) and leaves
\* recipients_data as it was; one that succeeds returns the rows it stored,
\* each with the status 'waiting'.
C25_FailedImportKeepsList ==
    [][call' = "import_csv" =>
          IF ret'[1]
          THEN /\ recipients_data' = ret'[3]
               /\ \A i \in 1..Len(ret'[3]) :
                     DictGet(ret'[3][i], StatusKey, <<>>) = StatusWaiting
          ELSE /\ ret'[2] # ""
               /\ ret'[3] = <<>>
               /\ recipients_data' = recipients_data]_vars

\* an import of a file without the column email failed while a list was held
C25_Witness ==
    /\ call = "import_csv"
    /\ ret = <<FALSE, "required columns missing", <<>>>>
    /\ recipients_data # <<>>

\* C30: no custom parameter's identifier equals 'email' or 'name' ignoring
\* case, so the display columns have no repeated column and the display
\* names of 'email' and 'name' are the system's.
C30_NoSystemIdentifier ==
    LET columns == get_display_columns(get_custom_param_identifiers)
    IN  /\ \A i \in 1..Len(custom_params) :
              Lower(custom_params[i][2]) \notin {EmailKey, NameKey}
        /\ \A i, j \in 1..Len(columns) : i # j => columns[i] # columns[j]
        /\ DictGet(get_all_param_display_names, EmailKey, <<>>) = DisplayNameOfEmail
        /\ DictGet(get_all_param_display_names, NameKey, <<>>) = DisplayNameOfName

-----------------------------------------------------------------------------
(* Claims about the markup of a run and of a paragraph.                    *)

\* C28: every span of a body that get_html_content rendered has a style
\* attribute that is not empty, whichever of the panel's tags the characters
\* carry.
C28_NoEmptyStyle ==
    \A i \in 1..Len(attempts) :
        attempts[i].is_html => ~ Contains(attempts[i].content, SpanOpen \o SpanMid)

\* C29: between the '<p>' and the '</p>' of a non-empty paragraph the output
\* holds the paragraph's runs one after the other and nothing else.
C29_NothingInserted ==
    pc = "done" =>
        \A m \in 1..Cardinality(OpenLines) :
            Contains(html, POpen \o Flatten(Units(m)) \o PClose)

\* C27: in HTML mode the body passed to send_email holds, for every
\* placeholder of the content whose key is a column of the recipient's row,
\* the row's value and not the placeholder, whatever tags the placeholder's
\* characters carry.
C27_PlaceholdersSubstituted ==
    \A i \in 1..Len(attempts) :
        attempts[i].is_html =>
            \A k \in DictKeys(recipients_data[i]) \ {StatusKey} :
                Contains(content, Placeholder(k)) =>
                    /\ ~ Contains(attempts[i].content, Placeholder(k))
                    /\ Contains(attempts[i].content,
                                DictGet(recipients_data[i], k, <<>>))

-----------------------------------------------------------------------------
(* Claims about EmailService.                                              *)

\* C26: _server holds a connection only if the connection completed STARTTLS
\* and login: it is None after a connect() or test_connection() that failed
\* and after disconnect(), and no message is sent over a connection that did
\* not log in.
C26_ServerOnlyIfLoggedIn ==
    /\ server \in {"None", "logged_in"}
    /\ call = "disconnect" => server = "None"
    /\ (call = "test_connection" /\ ~ ret[1]) => server = "None"
    /\ \A i \in 1..Len(smtp_log) : smtp_log[i].over = "logged_in"

-----------------------------------------------------------------------------
(* Claims about the preview window.                                        *)

C24_PageInRange ==
    /\ [](preview_open =>
             /\ 0 <= current_page
             /\ current_page < total_pages
             /\ total_pages = Min(PreviewLimit, Len(recipients_data)))
    /\ [][(call' = "prev_page" /\ current_page = 0) => UNCHANGED previewVars]_vars
    /\ [][(call' = "next_page" /\ current_page = total_pages - 1) =>
             UNCHANGED previewVars]_vars

\* the last page of the preview of a list of eleven recipients, reached with
\* next_page
C24_Witness ==
    /\ preview_open
    /\ call = "next_page"
    /\ Len(recipients_data) = 11
    /\ total_pages = 10
    /\ current_page = 9

====
